---------------------------- MODULE Spec2Model ----------------------------
(***************************************************************************)
(* A model of @apeleghq/rfc8188: the streaming encrypt and decrypt         *)
(* transforms of RFC 8188 and the key schedule (init / deriveNonce) that   *)
(* both use.                                                               *)
(*                                                                         *)
(* Widths.  TLC's integers are 32-bit signed, so an unsigned 32-bit value  *)
(* above 2^31-1 cannot be written.  The model keeps the shape of the       *)
(* program's numbers and scales their width: a byte has ByteBits bits (8   *)
(* in the program), a word is 4 bytes (getUint32 / setUint32), and the     *)
(* 32-bit signed integer of JavaScript's bitwise operators is the signed   *)
(* integer of one word.  seq_max, the largest value of one nonce counter   *)
(* (0xffffffff in the program), is scaled on its own so that the counter   *)
(* of a three-word nonce can be run to exhaustion.                         *)
(*                                                                         *)
(* Cryptography.  WebCrypto's HKDF and AES-GCM are outside the repository. *)
(* They are modelled symbolically: `sealed` lists what has been sealed    *)
(* (key, iv, plaintext), a ciphertext byte names its entry and its place   *)
(* in the record, and opening succeeds exactly on the untouched bytes of   *)
(* one sealed record under the same key and iv.                            *)
(*                                                                         *)
(* Specifications.  SpecNonce drives one deriveNonce generator; Spec pipes *)
(* one encrypt call into decrypt; SpecDec runs decrypt on streams built by *)
(* hand (well-formed, malformed, tampered, extended), ended anywhere;      *)
(* SpecStreams joins the two; SpecConcurrent interleaves several streams,  *)
(* each holding a reference to the generator object init() gave it.        *)
(***************************************************************************)
EXTENDS Integers, Sequences, FiniteSets, TLC

\* ------------------------------------------------------------------ bounds
\* Bits of one byte of the model (8 in the program).
ByteBits == 2
\* Largest value of one nonce counter word (0xffffffff in the program).
seq_max == 7
\* Most plaintext bytes a regular encrypt call is fed.
MaxPlain == 3
\* Calls of next() after the generator has thrown that the model follows.
MaxCallsAfterEnd == 1
\* Streams active at once, and records each of them seals or opens.
MaxStreams == 3
MaxTaken == 3

\* --------------------------------------------------------------- constants
ByteMod == 2 ^ ByteBits
WordMod == ByteMod ^ 4
\* src/constants.ts
SALT_LENGTH == 16
MAX_RECORD_SIZE == WordMod - 1
MAX_KEY_ID_LENGTH == ByteMod - 1
PADDING_DELIMITER_NONTERMINAL == 1
PADDING_DELIMITER_TERMINAL == 2

\* src/encodings.ts
aes128gcm ==
    [name |-> "AES-GCM", length |-> 128,
     cek_info |-> "Content-Encoding: aes128gcm",
     nonce_info |-> "Content-Encoding: nonce",
     block_size |-> 16, tag_length |-> 16, nonce_length |-> 12]
aes256gcm ==
    [name |-> "AES-GCM", length |-> 256,
     cek_info |-> "Content-Encoding: aes256gcm",
     nonce_info |-> "Content-Encoding: nonce",
     block_size |-> 16, tag_length |-> 16, nonce_length |-> 12]
encodings == {aes128gcm, aes256gcm}

\* A caller's own TEncoding: the shipped parameters with another nonce length.
WithNonceLength(e, n) == [e EXCEPT !.nonce_length = n]

\* ------------------------------------------------------------ bit helpers
RECURSIVE BitXor(_, _)
\* a ^ b on non-negative integers.
BitXor(a, b) ==
    IF a = 0 THEN b
    ELSE IF b = 0 THEN a
    ELSE (((a % 2) + (b % 2)) % 2) + 2 * BitXor(a \div 2, b \div 2)

RECURSIVE BitOr(_, _)
\* a | b on non-negative integers.
BitOr(a, b) ==
    IF a = 0 THEN b
    ELSE IF b = 0 THEN a
    ELSE (IF a % 2 = 1 \/ b % 2 = 1 THEN 1 ELSE 0) + 2 * BitOr(a \div 2, b \div 2)

\* ToUint32 and ToInt32 of ECMAScript, on a word of the model.
ToUint32(x) == x % WordMod
ToInt32(x) ==
    LET m == x % WordMod
    IN  IF m >= WordMod \div 2 THEN m - WordMod ELSE m

\* SetUint32 that writes the least significant byte first.
SetUint32LittleEndian(buf, offset, value) ==
    LET v == ToUint32(value)
    IN  [i \in 1..Len(buf) |->
            IF i = offset + 4 THEN v \div (ByteMod ^ 3)
            ELSE IF i = offset + 3 THEN (v \div (ByteMod ^ 2)) % ByteMod
            ELSE IF i = offset + 2 THEN (v \div ByteMod) % ByteMod
            ELSE IF i = offset + 1 THEN v % ByteMod
            ELSE buf[i]]

\* DataView.setUint32(offset, value, false) on buf (offset counted from 0).
SetUint32(buf, offset, value) ==
    LET v == ToUint32(value)
    IN  [i \in 1..Len(buf) |->
            IF i = offset + 1 THEN v \div (ByteMod ^ 3)
            ELSE IF i = offset + 2 THEN (v \div (ByteMod ^ 2)) % ByteMod
            ELSE IF i = offset + 3 THEN (v \div ByteMod) % ByteMod
            ELSE IF i = offset + 4 THEN v % ByteMod
            ELSE buf[i]]

\* DataView.getUint32(0, false) of a 4-byte buffer.
GetUint32(buf) ==
    ((buf[1] * ByteMod + buf[2]) * ByteMod + buf[3]) * ByteMod + buf[4]

Zeros(n) == [i \in 1..n |-> 0]

\* Uint8Array.prototype.set(src, offset) on dst (offset counted from 0).
SetAt(dst, src, offset) ==
    [i \in 1..Len(dst) |->
        IF i > offset /\ i <= offset + Len(src) THEN src[i - offset] ELSE dst[i]]

\* Uint8Array.prototype.set throws when src does not fit dst from offset on.
SetOverruns(dst, src, offset) == offset + Len(src) > Len(dst)

\* ------------------------------------------------------------ key schedule
\* HKDF (crypto.subtle.importKey / deriveKey): the key names what it was
\* derived from.
DeriveKey(encoding, IKM, salt) ==
    [ikm |-> IKM, salt |-> salt, info |-> encoding.cek_info,
     length |-> encoding.length]

\* HKDF (crypto.subtle.deriveBits): nonce_length bytes that depend on the
\* keying material, the salt and the info string.
DeriveBits(encoding, IKM, salt) ==
    [l \in 1..encoding.nonce_length |->
        (3 * IKM + salt[((l - 1) % Len(salt)) + 1] + 5 * l
           + (IF encoding.nonce_info = "Content-Encoding: nonce" THEN 1 ELSE 2))
        % ByteMod]

\* The generator object of deriveNonce before its first next().
NewGenerator(encoding, bits) ==
    [nonce_length |-> encoding.nonce_length,
     bitsBuffer |-> bits,
     started |-> FALSE,
     closed |-> FALSE,
     counter |-> 0,
     additionalCounters |-> Zeros((encoding.nonce_length \div 4) - 1),
     sequenceBuffer |-> Zeros(encoding.nonce_length)]

\* nonce[l] = bitsBuffer[l] ^ sequenceBuffer[l]
NonceOf(g) ==
    [l \in 1..g.nonce_length |-> BitXor(g.bitsBuffer[l], g.sequenceBuffer[l])]

\* Body of the main loop: write the least significant counter, yield.
YieldNonce(g, counter) ==
    LET g2 == [g EXCEPT !.counter = counter,
                        !.started = TRUE,
                        !.sequenceBuffer =
                            SetUint32(g.sequenceBuffer, g.nonce_length - 4, counter)]
    IN  [gen |-> g2, value |-> NonceOf(g2), thrown |-> FALSE, done |-> FALSE]

\* The last additional counter cannot be restarted.
LastCounterExhausted(g, j) ==
    /\ j = Len(g.additionalCounters) - 1
    /\ g.additionalCounters[j + 1] = seq_max

RECURSIVE CarryLoop(_, _)
\* for (j = 0; j < addtionalCountersLength; j++): a generator, or "throw".
CarryLoop(g, j) ==
    IF j >= Len(g.additionalCounters) THEN [thrown |-> FALSE, gen |-> g]
    ELSE IF LastCounterExhausted(g, j) THEN [thrown |-> TRUE, gen |-> g]
    ELSE LET v == (g.additionalCounters[j + 1] + 1) % (seq_max + 1)
             g2 == [g EXCEPT !.additionalCounters[j + 1] = v,
                             !.sequenceBuffer =
                                 SetUint32(g.sequenceBuffer,
                                           g.nonce_length - 4 * (j + 2), v)]
         IN  IF v # 0 THEN [thrown |-> FALSE, gen |-> g2]
             ELSE CarryLoop(g2, j + 1)

\* deriveNonce.next(): the generator runs to its next yield, or throws.
GenNext(g) ==
    IF g.closed
    THEN [gen |-> g, value |-> <<>>, thrown |-> FALSE, done |-> TRUE]
    ELSE IF ~g.started THEN YieldNonce(g, 0)
    ELSE IF g.counter + 1 <= seq_max THEN YieldNonce(g, g.counter + 1)
    ELSE LET c == CarryLoop(g, 0)
         IN  IF c.thrown
             THEN [gen |-> [c.gen EXCEPT !.closed = TRUE, !.counter = g.counter + 1],
                   value |-> <<>>, thrown |-> TRUE, done |-> FALSE]
             ELSE YieldNonce(c.gen, 0)

\* init(encoding, IKM, salt, keyUsages): [CEK, deriveNonce()]
init(encoding, IKM, salt) ==
    [CEK |-> DeriveKey(encoding, IKM, salt),
     deriveNonce |-> NewGenerator(encoding, DeriveBits(encoding, IKM, salt))]

\* The counter as one number: additional counter j weighs (seq_max+1)^(j+1).
RECURSIVE CounterValueFrom(_, _)
CounterValueFrom(g, j) ==
    IF j > Len(g.additionalCounters) THEN 0
    ELSE g.additionalCounters[j] * ((seq_max + 1) ^ j) + CounterValueFrom(g, j + 1)
CounterValue(g) == g.counter + CounterValueFrom(g, 1)

\* ------------------------------------------------------------------- AEAD
\* AES-GCM as an ideal cipher.  `sealed` lists what has been sealed: the key,
\* the iv and the plaintext of each ciphertext.  A ciphertext byte is
\* <<k, i>>: byte i of the ciphertext of entry k.  Sealing the same plaintext
\* under the same key and iv gives the same ciphertext.
SealedEntry(CEK, iv, record) == [cek |-> CEK, iv |-> iv, pt |-> record]

IndexOf(entry, table) ==
    IF \E k \in 1..Len(table) : table[k] = entry
    THEN CHOOSE k \in 1..Len(table) : table[k] = entry
    ELSE Len(table) + 1

\* crypto.subtle.encrypt (no additional data): the ciphertext of `record`
\* followed by the tag, tag_length bytes longer than `record`.
Seal(encoding, CEK, iv, record, table) ==
    LET entry == SealedEntry(CEK, iv, record)
        k == IndexOf(entry, table)
    IN  [sealed |-> IF k > Len(table) THEN Append(table, entry) ELSE table,
         ct |-> [i \in 1..(Len(record) + encoding.tag_length) |-> <<k, i>>]]

\* crypto.subtle.decrypt: the plaintext when `ct` is all of one ciphertext,
\* untouched, sealed under this key and iv; otherwise the promise rejects.
OpenUnauthenticated(encoding, CEK, iv, ct, table) ==
    IF /\ Len(ct) >= encoding.tag_length
       /\ ct[1][1] \in 1..Len(table)
       /\ Len(table[ct[1][1]].pt) + encoding.tag_length = Len(ct)
    THEN [ok |-> TRUE, pt |-> table[ct[1][1]].pt]
    ELSE [ok |-> FALSE, pt |-> <<>>]

Open(encoding, CEK, iv, ct, table) ==
    IF /\ Len(ct) >= encoding.tag_length
       /\ ct[1][1] \in 1..Len(table)
       /\ table[ct[1][1]].cek = CEK
       /\ table[ct[1][1]].iv = iv
       /\ Len(table[ct[1][1]].pt) + encoding.tag_length = Len(ct)
       /\ \A i \in 1..Len(ct) : ct[i] = <<ct[1][1], i>>
    THEN [ok |-> TRUE, pt |-> table[ct[1][1]].pt]
    ELSE [ok |-> FALSE, pt |-> <<>>]

\* ------------------------------------------------------------------ errors
NoError == [name |-> "", message |-> "", value |-> 0]
Throw(name, message, value) == [name |-> name, message |-> message, value |-> value]
Failed(r) == r.err # NoError

\* What Uint8Array.prototype.set throws on an overrun.
OutOfBounds == Throw("RangeError", "offset is out of bounds", 0)

Min(a, b) == IF a <= b THEN a ELSE b

\* Uint8Array.prototype.subarray(begin, end), both counted from 0 and clamped.
Subarray(octets, begin, end) ==
    SubSeq(octets, begin + 1, Min(end, Len(octets)))

RECURSIVE Concat(_)
\* The bytes of a sequence of chunks, in order.
Concat(chunks) ==
    IF chunks = <<>> THEN <<>> ELSE Head(chunks) \o Concat(Tail(chunks))

\* ------------------------------------------------------ faulty variants
\* Each of these differs from the definition it is named after in one
\* decision; the properties at the end of the module tell the two apart.

\* EncryptRangeError with the lower bound off by one.
EncryptRangeErrorLax(encoding, recordSize, keyId, salt) ==
    IF recordSize < encoding.tag_length + 1 \/ recordSize > MAX_RECORD_SIZE
    THEN Throw("RangeError", "Invalid record size: ", recordSize)
    ELSE IF Len(keyId) > MAX_KEY_ID_LENGTH
    THEN Throw("RangeError", "Key ID too long", 0)
    ELSE IF salt.given /\ Len(salt.bytes) # SALT_LENGTH
    THEN Throw("RangeError", "Invald salt length: ", Len(salt.bytes))
    ELSE NoError

\* SegmentSize that leaves no room for the delimiter.
SegmentSizeNoDelimiter(encoding, recordSize) == recordSize - encoding.tag_length

\* Header with the record size ahead of the salt.
HeaderSizeFirst(saltBuf, recordSize, keyId) ==
    LET dataView == [SetUint32(Zeros(4 + 1), 0, recordSize)
                        EXCEPT ![5] = Len(keyId) % ByteMod]
    IN  dataView \o saltBuf \o keyId

\* Lookup that asks the caller a second time.
LookupTwice(r, arg) == [r EXCEPT !.lookups = r.lookups \o <<arg, arg>>]

\* DecDefault that swallows what follows the terminal record.
DecDefaultIgnores(r, octets) == [r EXCEPT !.ipos = Len(octets)]

\* FlushDelimiterInvalid that lets a non-terminal last record pass.
FlushDelimiterLax(delimiter) ==
    /\ delimiter # PADDING_DELIMITER_TERMINAL
    /\ delimiter # PADDING_DELIMITER_NONTERMINAL

\* ----------------------------------------------------------------- encrypt
\* The argument checks of encrypt: the RangeError thrown, or NoError.
EncryptRangeError(encoding, recordSize, keyId, salt) ==
    IF recordSize <= encoding.tag_length + 1 \/ recordSize > MAX_RECORD_SIZE
    THEN Throw("RangeError", "Invalid record size: ", recordSize)
    ELSE IF Len(keyId) > MAX_KEY_ID_LENGTH
    THEN Throw("RangeError", "Key ID too long", 0)
    ELSE IF salt.given /\ Len(salt.bytes) # SALT_LENGTH
    THEN Throw("RangeError", "Invald salt length: ", Len(salt.bytes))
    ELSE NoError

SegmentSize(encoding, recordSize) == recordSize - encoding.tag_length - 1

\* start(): salt, record size (4 bytes, big-endian), key id length, key id.
Header(saltBuf, recordSize, keyId) ==
    LET dataView == [SetUint32(Zeros(4 + 1), 0, recordSize)
                        EXCEPT ![5] = Len(keyId) % ByteMod]
    IN  saltBuf \o dataView \o keyId

\* The closure of one accepted encrypt call, after start() has run.
NewEncryptor(encoding, recordSize, keyId, IKM, saltBuf) ==
    LET i == init(encoding, IKM, saltBuf)
    IN  [encoding |-> encoding,
         segmentSize |-> SegmentSize(encoding, recordSize),
         CEK |-> i.CEK,
         deriveNonce |-> i.deriveNonce,
         buffer |-> Zeros(SegmentSize(encoding, recordSize)),
         pos |-> 0,
         record |-> <<>>]

\* A full buffer: take the next nonce, seal buffer ++ 0x01, enqueue, pos = 0.
EncSealFull(r) ==
    LET e == r.e
        nonce == GenNext(e.deriveNonce)
        record == SubSeq(e.buffer, 1, e.pos) \o <<PADDING_DELIMITER_NONTERMINAL>>
    IN  IF nonce.thrown
        THEN [r EXCEPT !.e.deriveNonce = nonce.gen,
                       !.err = Throw("RangeError",
                                     "Maximum number of segments exceeded", 0)]
        ELSE IF nonce.done
        THEN [r EXCEPT !.err = Throw("TypeError", "iv", 0)]
        ELSE LET result == Seal(e.encoding, e.CEK, nonce.value, record, r.sealed)
             IN  [r EXCEPT !.e.deriveNonce = nonce.gen,
                           !.e.record = record,
                           !.e.pos = 0,
                           !.sealed = result.sealed,
                           !.out = Append(r.out, result.ct)]

\* One turn of the loop of transform: fill the buffer, seal it when full.
EncIteration(r, octets) ==
    LET e == r.e
        subArray == Subarray(octets, r.ipos, r.ipos + e.segmentSize - e.pos)
        r2 == [r EXCEPT !.e.buffer = SetAt(e.buffer, subArray, e.pos),
                        !.e.pos = e.pos + Len(subArray),
                        !.ipos = r.ipos + Len(subArray)]
    IN  IF SetOverruns(e.buffer, subArray, e.pos)
        THEN [r EXCEPT !.err = OutOfBounds]
        ELSE IF r2.e.pos = e.segmentSize THEN EncSealFull(r2) ELSE r2

RECURSIVE EncLoop(_, _)
\* transform(chunk): while (ipos < chunk.byteLength) { ... }
EncLoop(r, octets) ==
    IF Failed(r) \/ r.ipos >= Len(octets) THEN r
    ELSE EncLoop(EncIteration(r, octets), octets)

\* What one call of transform or flush starts from.
EncRun(e, table) ==
    [e |-> e, sealed |-> table, ipos |-> 0, out |-> <<>>, err |-> NoError]

EncTransform(e, table, chunk) == EncLoop(EncRun(e, table), chunk)

\* flush(): seal what is buffered with the terminal delimiter, then zeroize.
EncFlush(e, table) ==
    LET nonce == GenNext(e.deriveNonce)
        record == SubSeq(e.buffer, 1, e.pos) \o <<PADDING_DELIMITER_TERMINAL>>
        r == EncRun(e, table)
    IN  IF nonce.thrown
        THEN [r EXCEPT !.e.deriveNonce = nonce.gen,
                       !.err = Throw("RangeError",
                                     "Maximum number of segments exceeded", 0)]
        ELSE IF nonce.done
        THEN [r EXCEPT !.err = Throw("TypeError", "iv", 0)]
        ELSE LET result == Seal(e.encoding, e.CEK, nonce.value, record, table)
             IN  [r EXCEPT !.e.deriveNonce = nonce.gen,
                           !.e.buffer = Zeros(Len(e.buffer)),
                           !.e.record = Zeros(Len(record)),
                           !.sealed = result.sealed,
                           !.out = <<result.ct>>]

\* ----------------------------------------------------------------- decrypt
\* DECRYPT_STATE
DECRYPT_STATE ==
    [salt |-> "salt", recordSize |-> "recordSize", keyIdLen |-> "keyIdLen",
     keyId |-> "keyId", payload |-> "payload", done |-> "done"]

NoKey == [ikm |-> -1, salt |-> <<>>, info |-> "", length |-> 0]
NoGenerator == NewGenerator(WithNonceLength(aes128gcm, 0), <<>>)

\* The closure of one decrypt call: its variables before any chunk arrives.
NewDecryptor(encoding, maxRecordSize) ==
    [encoding |-> encoding,
     maxRecordSize |-> maxRecordSize,
     lookupIKM |-> "function",
     salt |-> Zeros(SALT_LENGTH),
     buffer |-> <<>>,
     CEK |-> NoKey,
     deriveNonce |-> NoGenerator,
     recordSize |-> 0,
     pos |-> 0,
     keyId |-> Zeros(1 + (ByteMod - 1)),
     state |-> DECRYPT_STATE.salt]

\* a | b of ECMAScript: both operands to 32 bits, the result signed.
Int32Or(a, b) == ToInt32(BitOr(ToUint32(a), ToUint32(b)))

\* The largest record size decrypt accepts.
RecordSizeLimit(maxRecordSize) ==
    IF ~maxRecordSize.given THEN MAX_RECORD_SIZE
    ELSE Min(MAX_RECORD_SIZE, maxRecordSize.value)

RecordSizeInvalid(encoding, recordSize, maxRecordSize) ==
    \/ recordSize <= encoding.tag_length + 1
    \/ recordSize > RecordSizeLimit(maxRecordSize)

\* case DECRYPT_STATE.salt
DecSalt(r, octets) ==
    LET d == r.d
        subArray == Subarray(octets, r.ipos, r.ipos + Len(d.salt) - d.pos)
        pos == d.pos + Len(subArray)
        r2 == [r EXCEPT !.d.salt = SetAt(d.salt, subArray, d.pos),
                        !.d.pos = pos,
                        !.ipos = r.ipos + Len(subArray)]
    IN  IF SetOverruns(d.salt, subArray, d.pos) THEN [r EXCEPT !.err = OutOfBounds]
        ELSE IF pos = Len(d.salt)
        THEN [r2 EXCEPT !.d.pos = 0, !.d.state = DECRYPT_STATE.recordSize]
        ELSE r2

\* case DECRYPT_STATE.recordSize
DecRecordSize(r, octets) ==
    LET d == r.d
        subArray == Subarray(octets, r.ipos, r.ipos + 4 - d.pos)
        recordSizeBuf == SetAt(Zeros(4), subArray, d.pos)
        recordSize == Int32Or(d.recordSize, GetUint32(recordSizeBuf))
        pos == d.pos + Len(subArray)
        r2 == [r EXCEPT !.d.recordSize = recordSize,
                        !.d.pos = pos,
                        !.ipos = r.ipos + Len(subArray)]
    IN  IF SetOverruns(Zeros(4), subArray, d.pos) THEN [r EXCEPT !.err = OutOfBounds]
        ELSE IF pos = 4
        THEN IF RecordSizeInvalid(d.encoding, recordSize, d.maxRecordSize)
             THEN [r2 EXCEPT !.err = Throw("RangeError", "Invalid record size: ",
                                           recordSize)]
             ELSE [r2 EXCEPT !.d.pos = 0, !.d.state = DECRYPT_STATE.keyIdLen]
        ELSE r2

\* DecKeyIdLen that reads the length and leaves the byte in the chunk.
DecKeyIdLenPeek(r, octets) ==
    [r EXCEPT !.d.keyId[1] = octets[r.ipos + 1],
              !.d.state = DECRYPT_STATE.keyId]

\* case DECRYPT_STATE.keyIdLen
DecKeyIdLen(r, octets) ==
    [r EXCEPT !.d.keyId[1] = octets[r.ipos + 1],
              !.ipos = r.ipos + 1,
              !.d.state = DECRYPT_STATE.keyId]

\* One invocation of the caller's lookupIKM, on this key id.
Lookup(r, arg) == [r EXCEPT !.lookups = Append(r.lookups, arg)]

\* DecDeriveKeys with a record buffer one byte short.
DecDeriveKeysShortBuffer(r) ==
    LET d == r.d
        arg == SubSeq(d.keyId, 2, 1 + d.keyId[1])
        r2 == Lookup(r, arg)
    IN  IF d.lookupIKM # "function"
        THEN [r EXCEPT !.err = Throw("TypeError", "lookupIKM is not a function", 0)]
        ELSE IF ~r.env.ok
        THEN [r2 EXCEPT !.err = Throw("Error", "lookupIKM", 0)]
        ELSE LET initResult == init(d.encoding, r.env.ikm, d.salt)
             IN  [r2 EXCEPT !.d.lookupIKM = "void 0",
                            !.d.CEK = initResult.CEK,
                            !.d.deriveNonce = initResult.deriveNonce,
                            !.d.buffer = Zeros(d.recordSize - 1),
                            !.d.pos = 0,
                            !.d.state = DECRYPT_STATE.payload,
                            !.derived = r.derived + 1]

\* lookupIKM(keyId), init(...), the record buffer: the end of the header.
DecDeriveKeys(r) ==
    LET d == r.d
        arg == SubSeq(d.keyId, 2, 1 + d.keyId[1])
        r2 == Lookup(r, arg)
    IN  IF d.lookupIKM # "function"
        THEN [r EXCEPT !.err = Throw("TypeError", "lookupIKM is not a function", 0)]
        ELSE IF ~r.env.ok
        THEN [r2 EXCEPT !.err = Throw("Error", "lookupIKM", 0)]
        ELSE LET initResult == init(d.encoding, r.env.ikm, d.salt)
             IN  [r2 EXCEPT !.d.lookupIKM = "void 0",
                            !.d.CEK = initResult.CEK,
                            !.d.deriveNonce = initResult.deriveNonce,
                            !.d.buffer = Zeros(d.recordSize),
                            !.d.pos = 0,
                            !.d.state = DECRYPT_STATE.payload,
                            !.derived = r.derived + 1]

\* DecKeyId that stores the key id over the length byte.
DecKeyIdFromZero(r, octets) ==
    LET d == r.d
        subArray == Subarray(octets, r.ipos, r.ipos + d.keyId[1] - d.pos)
        pos == d.pos + Len(subArray)
        r2 == [r EXCEPT !.d.keyId = SetAt(d.keyId, subArray, d.pos),
                        !.d.pos = pos,
                        !.ipos = r.ipos + Len(subArray)]
    IN  IF pos = d.keyId[1] THEN DecDeriveKeys(r2) ELSE r2

\* DecKeyId that looks the key up with whatever bytes of the key id it has.
DecKeyIdEager(r, octets) ==
    LET d == r.d
        subArray == Subarray(octets, r.ipos, r.ipos + d.keyId[1] - d.pos)
        r2 == [r EXCEPT !.d.keyId = SetAt(d.keyId, subArray, 1 + d.pos),
                        !.d.pos = d.pos + Len(subArray),
                        !.ipos = r.ipos + Len(subArray)]
    IN  DecDeriveKeys(r2)

\* case DECRYPT_STATE.keyId
DecKeyId(r, octets) ==
    LET d == r.d
        subArray == Subarray(octets, r.ipos, r.ipos + d.keyId[1] - d.pos)
        pos == d.pos + Len(subArray)
        r2 == [r EXCEPT !.d.keyId = SetAt(d.keyId, subArray, 1 + d.pos),
                        !.d.pos = pos,
                        !.ipos = r.ipos + Len(subArray)]
    IN  IF SetOverruns(d.keyId, subArray, 1 + d.pos)
        THEN [r EXCEPT !.err = OutOfBounds]
        ELSE IF pos = d.keyId[1] THEN DecDeriveKeys(r2) ELSE r2

\* PaddingIndex that takes the last byte for the delimiter.
PaddingIndexNoScan(result, i) == i

RECURSIVE PaddingIndex(_, _)
\* for (i = result.byteLength - 1; i > 0; i--) if (result[i] !== 0) break;
\* (i counted from 0)
PaddingIndex(result, i) ==
    IF i > 0 /\ result[i + 1] = 0 THEN PaddingIndex(result, i - 1) ELSE i

\* StateAfterRecord that expects a header after a non-terminal record.
StateAfterRecordRestart(delimiter) ==
    IF delimiter = PADDING_DELIMITER_TERMINAL
    THEN DECRYPT_STATE.done
    ELSE DECRYPT_STATE.salt

\* The state a full record leaves the decryptor in.
StateAfterRecord(delimiter) ==
    IF delimiter = PADDING_DELIMITER_TERMINAL
    THEN DECRYPT_STATE.done
    ELSE DECRYPT_STATE.payload

\* A full record buffer: next nonce, open, decode the padding, enqueue.
DecOpenFull(r, octets) ==
    LET d == r.d
        nonce == GenNext(d.deriveNonce)
        opened == Open(d.encoding, d.CEK, nonce.value, SubSeq(d.buffer, 1, d.pos),
                       r.sealed)
        result == opened.pt
        i == PaddingIndex(result, Len(result) - 1)
        r2 == [r EXCEPT !.d.deriveNonce = nonce.gen]
    IN  IF nonce.thrown
        THEN [r2 EXCEPT !.err = Throw("RangeError",
                                      "Maximum number of segments exceeded", 0)]
        ELSE IF nonce.done \/ ~opened.ok
        THEN [r2 EXCEPT !.err = Throw("OperationError", "decrypt", 0)]
        ELSE LET r3 == [r2 EXCEPT !.opened =
                            Append(r.opened,
                                   [iv |-> nonce.value, delimiter |-> result[i + 1],
                                    end |-> r.base + r.ipos, emitted |-> FALSE,
                                    result |-> result])]
             IN  IF /\ result[i + 1] = PADDING_DELIMITER_TERMINAL
                    /\ r.ipos # Len(octets)
                 THEN [r3 EXCEPT !.err =
                          Throw("Error", "Unexpected terminal padding delimiter", 0)]
                 ELSE IF /\ result[i + 1] # PADDING_DELIMITER_TERMINAL
                         /\ result[i + 1] # PADDING_DELIMITER_NONTERMINAL
                 THEN [r3 EXCEPT !.err = Throw("Error", "Invalid padding delimiter", 0)]
                 ELSE [r3 EXCEPT !.d.state = StateAfterRecord(result[i + 1]),
                                 !.d.pos = 0,
                                 !.opened[Len(r3.opened)].emitted = TRUE,
                                 !.opened[Len(r3.opened)].result =
                                     Zeros(Len(result)),
                                 !.out = Append(r.out, SubSeq(result, 1, i))]

\* case DECRYPT_STATE.payload
DecPayload(r, octets) ==
    LET d == r.d
        subArray == Subarray(octets, r.ipos, r.ipos + d.recordSize - d.pos)
        pos == d.pos + Len(subArray)
        r2 == [r EXCEPT !.d.buffer = SetAt(d.buffer, subArray, d.pos),
                        !.d.pos = pos,
                        !.ipos = r.ipos + Len(subArray)]
    IN  IF SetOverruns(d.buffer, subArray, d.pos) THEN [r EXCEPT !.err = OutOfBounds]
        ELSE IF pos = d.recordSize THEN DecOpenFull(r2, octets) ELSE r2

\* DecDefault that reports what the payload case reports.
DecDefaultTerminal(r, octets) ==
    [r EXCEPT !.err = Throw("Error", "Unexpected terminal padding delimiter", 0)]

\* default: any other state, DECRYPT_STATE.done included.
DecDefault(r, octets) == [r EXCEPT !.err = Throw("Error", "Invalid state", 0)]

\* One turn of the loop of transform: switch (state) { ... }
DecIteration(r, octets) ==
    IF r.d.state = DECRYPT_STATE.salt THEN DecSalt(r, octets)
    ELSE IF r.d.state = DECRYPT_STATE.recordSize THEN DecRecordSize(r, octets)
    ELSE IF r.d.state = DECRYPT_STATE.keyIdLen THEN DecKeyIdLen(r, octets)
    ELSE IF r.d.state = DECRYPT_STATE.keyId THEN DecKeyId(r, octets)
    ELSE IF r.d.state = DECRYPT_STATE.payload THEN DecPayload(r, octets)
    ELSE DecDefault(r, octets)

RECURSIVE DecLoop(_, _)
\* transform(chunk): while (ipos < chunk.byteLength) switch (state) { ... }
DecLoop(r, octets) ==
    IF Failed(r) \/ r.ipos >= Len(octets) THEN r
    ELSE DecLoop(DecIteration(r, octets), octets)

\* What one call of transform or flush starts from: the closure, the
\* lookupIKM the caller gave, and the number of bytes already consumed.
DecRun(d, env, table, base) ==
    [d |-> d, env |-> env, sealed |-> table, base |-> base, ipos |-> 0,
     out |-> <<>>, err |-> NoError, lookups |-> <<>>, derived |-> 0,
     opened |-> <<>>]

DecTransform(d, env, table, base, chunk) ==
    DecLoop(DecRun(d, env, table, base), chunk)

\* flush(): the delimiter the last record must not carry.
FlushDelimiterInvalid(delimiter) == delimiter # PADDING_DELIMITER_TERMINAL

\* flush(): nothing to do when done, the last (short) record when in payload.
DecFlush(d, env, table, base) ==
    LET r == DecRun(d, env, table, base)
    IN  IF d.state = DECRYPT_STATE.done THEN r
        ELSE IF d.state = DECRYPT_STATE.payload
        THEN IF d.pos < 1 + d.encoding.tag_length
             THEN [r EXCEPT !.err = Throw("Error", "Unexpected end of data", 0)]
             ELSE LET nonce == GenNext(d.deriveNonce)
                      opened == Open(d.encoding, d.CEK, nonce.value,
                                     SubSeq(d.buffer, 1, d.pos), table)
                      result == opened.pt
                      i == PaddingIndex(result, Len(result) - 1)
                      r2 == [r EXCEPT !.d.deriveNonce = nonce.gen]
                  IN  IF nonce.thrown
                      THEN [r2 EXCEPT !.err =
                               Throw("RangeError",
                                     "Maximum number of segments exceeded", 0)]
                      ELSE IF nonce.done \/ ~opened.ok
                      THEN [r2 EXCEPT !.err = Throw("OperationError", "decrypt", 0)]
                      ELSE IF FlushDelimiterInvalid(result[i + 1])
                      THEN [r2 EXCEPT
                               !.opened = <<[iv |-> nonce.value,
                                             delimiter |-> result[i + 1],
                                             end |-> base, emitted |-> FALSE,
                                             result |-> result]>>,
                               !.err = Throw("Error",
                                   "Unexpected non-terminal padding delimiter", 0)]
                      ELSE [r2 EXCEPT
                               !.opened = <<[iv |-> nonce.value,
                                             delimiter |-> result[i + 1],
                                             end |-> base, emitted |-> TRUE,
                                             result |-> Zeros(Len(result))]>>,
                               !.out = <<SubSeq(result, 1, i)>>]
        ELSE [r EXCEPT !.err = Throw("Error", "Invalid state", 0)]

\* --------------------------------------------------------------- variables
VARIABLES
    \* the nonce generator driven on its own
    gen,        \* the generator object
    calls,      \* next() calls that returned a nonce
    returned,   \* the nonces returned so far
    lastCall,   \* outcome of the latest next(): "none", "value", "throw", "done"
    afterEnd,   \* next() calls made after the generator threw
    \* the ideal cipher
    sealed,     \* what AES-GCM has sealed: key, iv and plaintext of each
    \* one encrypt call and its stream
    args,       \* the arguments of encrypt, and the plaintext of its data stream
    encStatus,  \* "unused", "idle", "rejected", "open", "closed", "errored"
    encErr,     \* what encrypt threw or its stream failed with
    enc,        \* the closure of the encrypt call
    encOut,     \* the chunks enqueued on the encrypted stream
    plainFed,   \* plaintext bytes handed to transform so far
    \* one decrypt call and its stream
    wire,       \* the bytes of the data stream decrypt is given
    env,        \* what the caller's lookupIKM does
    decStatus,  \* "unused", "idle", "open", "closed", "errored"
    decErr,     \* what the decrypted stream failed with
    dec,        \* the closure of the decrypt call
    decOut,     \* the chunks enqueued on the decrypted stream
    wireFed,    \* bytes of wire handed to transform so far
    lookups,    \* the key ids lookupIKM has been called with
    derived,    \* completed init() calls of the decrypt stream
    opened,     \* the records opened: iv, delimiter, end offset, emitted,
                \* and the opened-plaintext buffer as the call leaves it
    flushed,    \* flush() of the decrypt stream has been called
    sent,       \* how the sender of a hand-made wire built it
    \* several streams at once
    heap,       \* the generator objects init() has created
    streams     \* the streams: which generator each holds, the nonces it took

nonceVars == <<gen, calls, returned, lastCall, afterEnd>>
encVars == <<args, encStatus, encErr, enc, encOut, plainFed>>
decVars == <<wire, env, decStatus, decErr, dec, decOut, wireFed, lookups,
             derived, opened, flushed, sent>>
heapVars == <<heap, streams>>

vars == <<gen, calls, returned, lastCall, afterEnd, sealed,
          args, encStatus, encErr, enc, encOut, plainFed,
          wire, env, decStatus, decErr, dec, decOut, wireFed, lookups,
          derived, opened, flushed, sent, heap, streams>>

\* ------------------------------------------------- the generator on its own
NonceLengths == {4, 8, 12}
Salt0 == Zeros(SALT_LENGTH)
Salt1 == [i \in 1..SALT_LENGTH |-> 1]
Salt2 == [i \in 1..SALT_LENGTH |-> IF i = 1 THEN 3 ELSE 0]

NoArgs == [encoding |-> aes128gcm, recordSize |-> 0, keyId |-> <<>>, IKM |-> 0,
           salt |-> [given |-> FALSE, bytes |-> <<>>], data |-> <<>>]
NoEncryptor == NewEncryptor(aes128gcm, 0, <<>>, 0, Salt0)
NoMaxRecordSize == [given |-> FALSE, value |-> 0]
NoMutation == [append |-> 0, tamper |-> 0, skip |-> 0]
NoSender == [encoding |-> aes128gcm, recordSize |-> 0, keyId |-> <<>>,
             salt |-> Salt0, IKM |-> 0, pts |-> <<>>, mutation |-> NoMutation]

NonceUnused ==
    /\ gen = NoGenerator
    /\ calls = 0
    /\ returned = {}
    /\ lastCall = "unused"
    /\ afterEnd = 0

EncUnused ==
    /\ args = NoArgs
    /\ encStatus = "unused"
    /\ encErr = NoError
    /\ enc = NoEncryptor
    /\ encOut = <<>>
    /\ plainFed = 0

HeapUnused ==
    /\ heap = <<>>
    /\ streams = <<>>

DecUnused ==
    /\ wire = <<>>
    /\ env = [ok |-> FALSE, ikm |-> 0]
    /\ decStatus = "unused"
    /\ decErr = NoError
    /\ dec = NewDecryptor(aes128gcm, NoMaxRecordSize)
    /\ decOut = <<>>
    /\ wireFed = 0
    /\ lookups = <<>>
    /\ derived = 0
    /\ opened = <<>>
    /\ flushed = FALSE
    /\ sent = NoSender

InitNonce ==
    /\ \E n \in NonceLengths, ikm \in {0, 1} :
          gen = init(WithNonceLength(aes128gcm, n), ikm, Salt0).deriveNonce
    /\ calls = 0
    /\ returned = {}
    /\ lastCall = "none"
    /\ afterEnd = 0
    /\ sealed = <<>>
    /\ EncUnused
    /\ DecUnused
    /\ HeapUnused

\* The model follows a generator for as many calls as exhaust three counters.
CallCap == (seq_max + 1) ^ 3 + 2

\* One deriveNonce.next() that yields a nonce.
NextNonce ==
    /\ lastCall \in {"none", "value"}
    /\ calls < CallCap
    /\ LET r == GenNext(gen)
       IN  /\ ~r.thrown /\ ~r.done
           /\ gen' = r.gen
           /\ calls' = calls + 1
           /\ returned' = returned \cup {r.value}
           /\ lastCall' = "value"
           /\ UNCHANGED afterEnd
    /\ UNCHANGED <<sealed, encVars, decVars, heapVars>>

\* One deriveNonce.next() that throws 'Maximum number of segments exceeded'.
NextThrows ==
    /\ lastCall \in {"none", "value"}
    /\ LET r == GenNext(gen)
       IN  /\ r.thrown
           /\ gen' = r.gen
           /\ lastCall' = "throw"
           /\ UNCHANGED <<calls, returned, afterEnd>>
    /\ UNCHANGED <<sealed, encVars, decVars, heapVars>>

\* next() on a generator that has thrown: { value: undefined, done: true }.
NextAfterEnd ==
    /\ lastCall \in {"throw", "done"}
    /\ afterEnd < MaxCallsAfterEnd
    /\ LET r == GenNext(gen)
       IN  /\ r.done
           /\ gen' = r.gen
           /\ lastCall' = "done"
           /\ afterEnd' = afterEnd + 1
           /\ UNCHANGED <<calls, returned>>
    /\ UNCHANGED <<sealed, encVars, decVars, heapVars>>

NextNonceSpec == NextNonce \/ NextThrows \/ NextAfterEnd

SpecNonce == InitNonce /\ [][NextNonceSpec]_vars

\* ------------------------------------------------ encrypt piped into decrypt
\* Bytes a plaintext is made of: a zero (the padding byte) and a byte equal
\* to a delimiter.
PlainBytes == {0, PADDING_DELIMITER_TERMINAL}
\* The plaintexts of up to n bytes that repeat one byte, and those that end
\* in a zero after a delimiter byte.
Plaintexts(n) ==
    {[i \in 1..k |-> b] : b \in PlainBytes, k \in 0..n}
    \cup {[i \in 1..k |-> IF i = k THEN 0 ELSE PADDING_DELIMITER_NONTERMINAL] :
             k \in 2..n}
KeyIdOfLength(n) == [i \in 1..n |-> (i % (ByteMod - 1)) + 1]
SaltOfLength(n) == [given |-> TRUE, bytes |-> [i \in 1..n |-> 1]]
SaltAbsent == [given |-> FALSE, bytes |-> <<>>]
\* generateRandomSalt(): any 16 bytes; the model draws from two.
RandomSalts == {Salt0, Salt2}
TheIKM == 1

\* Accepted calls: small records, so that a plaintext spans several.
RegularArgs ==
    [encoding : {aes128gcm},
     recordSize : {aes128gcm.tag_length + 2, aes128gcm.tag_length + 3},
     keyId : {KeyIdOfLength(0), KeyIdOfLength(2)},
     IKM : {TheIKM},
     salt : {SaltOfLength(SALT_LENGTH)},
     data : Plaintexts(MaxPlain)]
    \cup
    [encoding : {aes256gcm},
     recordSize : {aes256gcm.tag_length + 3},
     keyId : {KeyIdOfLength(1)},
     IKM : {TheIKM},
     salt : {SaltOfLength(SALT_LENGTH)},
     data : Plaintexts(MaxPlain)]

\* Calls at the edges of what encrypt accepts, with an empty plaintext.
EdgeArgs ==
    [encoding : {aes128gcm},
     recordSize : {0, aes128gcm.tag_length + 1, aes128gcm.tag_length + 2,
                   WordMod \div 2 - 1, WordMod \div 2,
                   MAX_RECORD_SIZE, MAX_RECORD_SIZE + 1},
     keyId : {KeyIdOfLength(0), KeyIdOfLength(MAX_KEY_ID_LENGTH),
              KeyIdOfLength(MAX_KEY_ID_LENGTH + 1)},
     IKM : {TheIKM},
     salt : {SaltAbsent, SaltOfLength(0), SaltOfLength(SALT_LENGTH - 1),
             SaltOfLength(SALT_LENGTH), SaltOfLength(SALT_LENGTH + 1)},
     data : {<<>>}]

\* A caller's encoding with a one-word nonce, and a plaintext of one record
\* more than that word counts.
LongArgs ==
    [encoding : {WithNonceLength(aes128gcm, 4)},
     recordSize : {aes128gcm.tag_length + 2},
     keyId : {KeyIdOfLength(0)},
     IKM : {TheIKM},
     salt : {SaltOfLength(SALT_LENGTH)},
     data : {[i \in 1..(seq_max + 1) |-> 0]}]

\* A caller's encoding with a two-word nonce, and a plaintext of more
\* records than two words count.
ExhaustingArgs ==
    [encoding : {WithNonceLength(aes128gcm, 8)},
     recordSize : {aes128gcm.tag_length + 2},
     keyId : {KeyIdOfLength(0)},
     IKM : {TheIKM},
     salt : {SaltOfLength(SALT_LENGTH)},
     data : {[i \in 1..((seq_max + 1) ^ 2 + 1) |-> 0]}]

Init ==
    /\ args \in RegularArgs \cup EdgeArgs \cup LongArgs \cup ExhaustingArgs
    /\ encStatus = "idle"
    /\ encErr = NoError
    /\ enc = NoEncryptor
    /\ encOut = <<>>
    /\ plainFed = 0
    /\ wire = <<>>
    /\ env = [ok |-> TRUE, ikm |-> args.IKM]
    /\ decStatus = "idle"
    /\ decErr = NoError
    /\ dec = NewDecryptor(args.encoding, NoMaxRecordSize)
    /\ decOut = <<>>
    /\ wireFed = 0
    /\ lookups = <<>>
    /\ derived = 0
    /\ opened = <<>>
    /\ flushed = FALSE
    /\ sent = NoSender
    /\ sealed = <<>>
    /\ NonceUnused
    /\ HeapUnused

\* encrypt(encoding, data, recordSize, keyId, IKM, salt) throws a RangeError.
EncryptRejects ==
    /\ encStatus = "idle"
    /\ EncryptRangeError(args.encoding, args.recordSize, args.keyId, args.salt)
          # NoError
    /\ encStatus' = "rejected"
    /\ encErr' = EncryptRangeError(args.encoding, args.recordSize, args.keyId,
                                   args.salt)
    /\ UNCHANGED <<args, enc, encOut, plainFed, sealed, decVars, nonceVars, heapVars>>

\* encrypt(...) returns the stream: the keys are derived, start() has
\* enqueued the header.
EncryptAccepts ==
    /\ encStatus = "idle"
    /\ EncryptRangeError(args.encoding, args.recordSize, args.keyId, args.salt)
          = NoError
    /\ \E saltBuf \in (IF args.salt.given THEN {args.salt.bytes} ELSE RandomSalts) :
          /\ enc' = NewEncryptor(args.encoding, args.recordSize, args.keyId,
                                 args.IKM, saltBuf)
          /\ encOut' = <<Header(saltBuf, args.recordSize, args.keyId)>>
    /\ encStatus' = "open"
    /\ UNCHANGED <<args, encErr, plainFed, sealed, decVars, nonceVars, heapVars>>

\* transform(chunk) of the encrypt stream, on the next n plaintext bytes.
EncWrite ==
    /\ encStatus = "open"
    /\ \E n \in 0..(Len(args.data) - plainFed) :
          LET r == EncTransform(enc, sealed,
                                SubSeq(args.data, plainFed + 1, plainFed + n))
          IN  /\ enc' = r.e
              /\ sealed' = r.sealed
              /\ encOut' = encOut \o r.out
              /\ encErr' = r.err
              /\ encStatus' = IF Failed(r) THEN "errored" ELSE "open"
              /\ plainFed' = plainFed + n
    /\ UNCHANGED <<args, decVars, nonceVars, heapVars>>

\* flush() of the encrypt stream: the plaintext has ended.
EncClose ==
    /\ encStatus = "open"
    /\ plainFed = Len(args.data)
    /\ LET r == EncFlush(enc, sealed)
       IN  /\ enc' = r.e
           /\ sealed' = r.sealed
           /\ encOut' = encOut \o r.out
           /\ encErr' = r.err
           /\ encStatus' = IF Failed(r) THEN "errored" ELSE "closed"
    /\ UNCHANGED <<args, plainFed, decVars, nonceVars, heapVars>>

\* decrypt(encoding, data, lookupIKM) on the encrypted stream.
Decrypt ==
    /\ encStatus = "closed"
    /\ decStatus = "idle"
    /\ decStatus' = "open"
    /\ wire' = Concat(encOut)
    /\ UNCHANGED <<env, decErr, dec, decOut, wireFed, lookups, derived, opened,
                   flushed, sent, sealed, encVars, nonceVars, heapVars>>

\* transform(chunk) called whatever became of the calls before it.
DecWriteAfterError ==
    /\ decStatus \in {"open", "errored"}
    /\ \E n \in 0..(Len(wire) - wireFed) :
          LET r == DecTransform(dec, env, sealed, wireFed,
                                SubSeq(wire, wireFed + 1, wireFed + n))
          IN  /\ dec' = r.d
              /\ decOut' = decOut \o r.out
              /\ decErr' = r.err
              /\ decStatus' = IF Failed(r) THEN "errored" ELSE "open"
              /\ wireFed' = wireFed + n
              /\ lookups' = lookups \o r.lookups
              /\ derived' = derived + r.derived
              /\ opened' = opened \o r.opened
    /\ UNCHANGED <<wire, env, flushed, sent, sealed, encVars, nonceVars, heapVars>>

\* transform(chunk) of the decrypt stream, on the next n bytes of the wire.
DecWrite ==
    /\ decStatus = "open"
    /\ \E n \in 0..(Len(wire) - wireFed) :
          LET r == DecTransform(dec, env, sealed, wireFed,
                                SubSeq(wire, wireFed + 1, wireFed + n))
          IN  /\ dec' = r.d
              /\ decOut' = decOut \o r.out
              /\ decErr' = r.err
              /\ decStatus' = IF Failed(r) THEN "errored" ELSE "open"
              /\ wireFed' = wireFed + n
              /\ lookups' = lookups \o r.lookups
              /\ derived' = derived + r.derived
              /\ opened' = opened \o r.opened
    /\ UNCHANGED <<wire, env, flushed, sent, sealed, encVars, nonceVars, heapVars>>

\* flush() of the decrypt stream.
DecFlushes ==
    /\ decStatus = "open"
    /\ LET r == DecFlush(dec, env, sealed, wireFed)
       IN  /\ dec' = r.d
           /\ decOut' = decOut \o r.out
           /\ decErr' = r.err
           /\ decStatus' = IF Failed(r) THEN "errored" ELSE "closed"
           /\ lookups' = lookups \o r.lookups
           /\ derived' = derived + r.derived
           /\ opened' = opened \o r.opened
    /\ flushed' = TRUE
    /\ UNCHANGED <<wire, env, wireFed, sent, sealed, encVars, nonceVars, heapVars>>

\* The encrypted stream has ended: every byte was handed over, then flush().
DecClose ==
    /\ wireFed = Len(wire)
    /\ DecFlushes

Next ==
    \/ EncryptRejects
    \/ EncryptAccepts
    \/ EncWrite
    \/ EncClose
    \/ Decrypt
    \/ DecWrite
    \/ DecClose

Spec == Init /\ [][Next]_vars

\* ---------------------------------------------- decrypt on hand-made wires
\* A ciphertext byte no record was sealed to.
Garbage == <<0, 0>>

RECURSIVE Advance(_, _)
\* The generator after k calls of next(); a finished generator stays as it
\* is.
Advance(g, k) ==
    IF k = 0 \/ g.closed THEN g ELSE Advance(GenNext(g).gen, k - 1)

RECURSIVE SealRecords(_, _, _, _, _)
\* A sender seals the plaintexts `pts` in turn, one nonce each.
SealRecords(encoding, CEK, g, pts, table) ==
    IF pts = <<>> THEN [sealed |-> table, wire |-> <<>>]
    ELSE LET nonce == GenNext(g)
             one == Seal(encoding, CEK, nonce.value, Head(pts), table)
             rest == SealRecords(encoding, CEK, nonce.gen, Tail(pts), one.sealed)
         IN  [sealed |-> rest.sealed, wire |-> one.ct \o rest.wire]

\* What a sender puts on the wire: the header, the records sealed from the
\* nonce numbered mutation.skip on, one payload byte replaced when
\* mutation.tamper names it, and mutation.append bytes after the last record.
Transmit(snd) ==
    LET i == init(snd.encoding, snd.IKM, snd.salt)
        records == SealRecords(snd.encoding, i.CEK,
                               Advance(i.deriveNonce, snd.mutation.skip),
                               snd.pts, <<>>)
        payload == [k \in 1..Len(records.wire) |->
                       IF k = snd.mutation.tamper THEN Garbage
                       ELSE records.wire[k]]
    IN  [sealed |-> records.sealed,
         wire |-> Header(snd.salt, snd.recordSize, snd.keyId) \o payload
                     \o [k \in 1..snd.mutation.append |-> Garbage]]

SmallRecord == aes128gcm.tag_length + 2

\* Streams of records of SmallRecord bytes (two plaintext bytes each) that
\* end in their one terminal record, which may be short.
WellFormedRecords ==
    { << <<PADDING_DELIMITER_TERMINAL>> >>,
      << <<0, PADDING_DELIMITER_TERMINAL>> >>,
      << <<PADDING_DELIMITER_TERMINAL, 0>> >>,
      << <<0, PADDING_DELIMITER_NONTERMINAL>>, <<PADDING_DELIMITER_TERMINAL>> >>,
      << <<PADDING_DELIMITER_NONTERMINAL, 0>>, <<PADDING_DELIMITER_TERMINAL>> >>,
      << <<2, PADDING_DELIMITER_NONTERMINAL>>, <<0, PADDING_DELIMITER_TERMINAL>> >> }

\* Streams that no conforming sender produces.
MalformedRecords ==
    { <<>>,
      << <<>> >>,
      << <<0>> >>,
      << <<3>> >>,
      << <<0, 0>> >>,
      << <<0, 3>> >>,
      << <<0, PADDING_DELIMITER_NONTERMINAL>> >>,
      << <<0, PADDING_DELIMITER_NONTERMINAL>>, <<PADDING_DELIMITER_NONTERMINAL>> >>,
      << <<0, PADDING_DELIMITER_TERMINAL>>, <<PADDING_DELIMITER_TERMINAL>> >>,
      << <<PADDING_DELIMITER_TERMINAL>>, <<0, PADDING_DELIMITER_TERMINAL>> >> }

Mutations ==
    { NoMutation,
      [append |-> 1, tamper |-> 0, skip |-> 0],
      [append |-> SmallRecord, tamper |-> 0, skip |-> 0],
      [append |-> 0, tamper |-> 1, skip |-> 0],
      [append |-> 0, tamper |-> SmallRecord + 1, skip |-> 0],
      [append |-> 0, tamper |-> 0, skip |-> 1] }

Sender(recordSize, keyId, ikm, pts, mutation) ==
    [encoding |-> aes128gcm, recordSize |-> recordSize, keyId |-> keyId,
     salt |-> Salt1, IKM |-> ikm, pts |-> pts, mutation |-> mutation]

\* Receivers: lookupIKM returns the sender's secret, another one, or throws.
RightKey == [ok |-> TRUE, ikm |-> TheIKM]
WrongKey == [ok |-> TRUE, ikm |-> TheIKM + 1]
NoSuchKey == [ok |-> FALSE, ikm |-> 0]

\* Payload cases: small records, no maxRecordSize.
PayloadCases ==
    {[snd |-> Sender(SmallRecord, KeyIdOfLength(0), TheIKM, pts, mutation),
      env |-> RightKey, maxRecordSize |-> NoMaxRecordSize] :
        pts \in WellFormedRecords, mutation \in Mutations}
    \cup
    {[snd |-> Sender(SmallRecord, KeyIdOfLength(0), TheIKM, pts, NoMutation),
      env |-> RightKey, maxRecordSize |-> NoMaxRecordSize] :
        pts \in MalformedRecords}
    \cup
    {[snd |-> Sender(SmallRecord, keyId, TheIKM,
                     << <<0, PADDING_DELIMITER_NONTERMINAL>>,
                        <<PADDING_DELIMITER_TERMINAL>> >>, NoMutation),
      env |-> e, maxRecordSize |-> NoMaxRecordSize] :
        keyId \in {KeyIdOfLength(0), KeyIdOfLength(2),
                   KeyIdOfLength(MAX_KEY_ID_LENGTH)},
        e \in {RightKey, WrongKey, NoSuchKey}}

\* Header cases: the declared record size against maxRecordSize.
HeaderCases ==
    {[snd |-> Sender(recordSize, KeyIdOfLength(1), TheIKM,
                     << <<PADDING_DELIMITER_TERMINAL>> >>, NoMutation),
      env |-> RightKey, maxRecordSize |-> maxRecordSize] :
        recordSize \in {0, SmallRecord - 1, SmallRecord, SmallRecord + 1,
                        WordMod \div 2 - 1, WordMod \div 2, MAX_RECORD_SIZE},
        maxRecordSize \in {NoMaxRecordSize,
                           [given |-> TRUE, value |-> SmallRecord],
                           [given |-> TRUE, value |-> WordMod \div 2 - 1],
                           [given |-> TRUE, value |-> MAX_RECORD_SIZE + 1]}}

\* "I am the walrus", the plaintext of the examples of RFC 8188, section 3,
\* each character code reduced to a byte of the model.
Walrus ==
    [i \in 1..15 |->
        <<73, 32, 97, 109, 32, 116, 104, 101, 32, 119, 97, 108, 114, 117, 115>>[i]
            % ByteMod]

\* The record size of the example of section 3.1 (4096 there): larger than
\* the one record of the stream, which is therefore a short last record.
VectorRecordSize31 == 4 * aes128gcm.tag_length
\* The record size of the example of section 3.2.
VectorRecordSize32 == aes128gcm.tag_length + 9

\* The streams of the two examples, as their sender built them: 3.1 has no
\* key id and one record; 3.2 has the key id "a1" and two records of
\* VectorRecordSize32 bytes, the first padded with one zero byte.
VectorCases ==
    {[snd |-> Sender(VectorRecordSize31, <<>>, TheIKM,
                     << Walrus \o <<PADDING_DELIMITER_TERMINAL>> >>, NoMutation),
      env |-> RightKey, maxRecordSize |-> NoMaxRecordSize],
     [snd |-> Sender(VectorRecordSize32, <<97 % ByteMod, 49 % ByteMod>>, TheIKM,
                     << SubSeq(Walrus, 1, 7) \o <<PADDING_DELIMITER_NONTERMINAL, 0>>,
                        SubSeq(Walrus, 8, 15) \o <<PADDING_DELIMITER_TERMINAL>> >>,
                     NoMutation),
      env |-> RightKey, maxRecordSize |-> NoMaxRecordSize]}

InitDec ==
    /\ \E c \in PayloadCases \cup HeaderCases \cup VectorCases :
          /\ sent = c.snd
          /\ env = c.env
          /\ dec = NewDecryptor(c.snd.encoding, c.maxRecordSize)
          /\ wire = Transmit(c.snd).wire
          /\ sealed = Transmit(c.snd).sealed
    /\ decStatus = "open"
    /\ decErr = NoError
    /\ decOut = <<>>
    /\ wireFed = 0
    /\ lookups = <<>>
    /\ derived = 0
    /\ opened = <<>>
    /\ flushed = FALSE
    /\ EncUnused
    /\ NonceUnused
    /\ HeapUnused

\* The data stream may end anywhere: flush() after any number of bytes.
NextDec == DecWrite \/ DecFlushes

SpecDec == InitDec /\ [][NextDec]_vars

\* Both streams, every way they are driven: encrypt piped into decrypt, on
\* calls that encrypt rejects, that it accepts, that fill segments of two
\* bytes, and that run out of nonces, and decrypt on the wires of InitDec,
\* its input ending anywhere.
InitStreams ==
    \/ /\ Init
       /\ \/ args \in ExhaustingArgs
          \/ /\ args \in EdgeArgs
             /\ args.recordSize \in {0, aes128gcm.tag_length + 2}
          \/ /\ args \in RegularArgs
             /\ args.encoding = aes128gcm
             /\ args.recordSize = aes128gcm.tag_length + 3
             /\ args.keyId = KeyIdOfLength(0)
             /\ \A i \in 1..Len(args.data) : args.data[i] = 0
    \/ InitDec

NextStreams ==
    \/ EncryptRejects
    \/ EncryptAccepts
    \/ EncWrite
    \/ EncClose
    \/ Decrypt
    \/ DecWrite
    \/ DecFlushes

SpecStreams == InitStreams /\ [][NextStreams]_vars

\* ------------------------------------------------ several streams at once
\* A generator shared by every stream.
AllocateShared(h, g) ==
    IF h = <<>> THEN [heap |-> <<g>>, ref |-> 1] ELSE [heap |-> h, ref |-> 1]

\* deriveNonce(): calling the generator function makes a new generator
\* object; the caller gets a reference to it.
Allocate(h, g) == [heap |-> Append(h, g), ref |-> Len(h) + 1]

StreamKinds == {"encrypt", "decrypt"}

InitConcurrent ==
    /\ heap = <<>>
    /\ streams = <<>>
    /\ sealed = <<>>
    /\ EncUnused
    /\ DecUnused
    /\ NonceUnused

\* An encrypt call, or a decrypt stream at the end of its header: init()
\* returns the key and a generator, kept in the closure of the stream.
StartStream ==
    /\ Len(streams) < MaxStreams
    /\ \E kind \in StreamKinds :
          LET a == Allocate(heap, init(aes128gcm, TheIKM, Salt1).deriveNonce)
          IN  /\ heap' = a.heap
              /\ streams' = Append(streams, [kind |-> kind, deriveNonce |-> a.ref,
                                             nonces |-> <<>>])
    /\ UNCHANGED <<sealed, encVars, decVars, nonceVars>>

\* One stream seals or opens a record: deriveNonce.next() on its generator.
StreamNext ==
    /\ \E s \in 1..Len(streams) :
          LET ref == streams[s].deriveNonce
              nonce == GenNext(heap[ref])
          IN  /\ Len(streams[s].nonces) < MaxTaken
              /\ ~nonce.thrown /\ ~nonce.done
              /\ heap' = [heap EXCEPT ![ref] = nonce.gen]
              /\ streams' = [streams EXCEPT ![s].nonces = Append(@, nonce.value)]
    /\ UNCHANGED <<sealed, encVars, decVars, nonceVars>>

NextConcurrent == StartStream \/ StreamNext

SpecConcurrent == InitConcurrent /\ [][NextConcurrent]_vars

\* Counter values a generator of this nonce length has: one word per 4 bytes.
Capacity(g) == (seq_max + 1) ^ (g.nonce_length \div 4)

\* C2: on any one generator the k-th next() uses counter value k-1 (which
\* carries into the more significant words as the less significant ones
\* wrap), and the nonces returned so far are pairwise distinct.
C2_NonceUniqueMonotonic ==
    lastCall = "value" =>
        /\ CounterValue(gen) = calls - 1
        /\ Cardinality(returned) = calls

\* C3: for one, two and three counter words, next() returns a nonce at most
\* once per counter value, and the call that follows the last counter value
\* throws 'Maximum number of segments exceeded' instead of wrapping.
C3_ExhaustionDetected ==
    /\ calls <= Capacity(gen)
    /\ (lastCall = "throw" => calls = Capacity(gen))
    /\ (calls = Capacity(gen) /\ lastCall = "value" => GenNext(gen).thrown)

\* ------------------------------------------------------------- properties
Finished == decStatus \in {"closed", "errored"}

LastOpened == opened[Len(opened)]

\* C1: decrypting what encrypt produced, with the same secret, completes
\* without error and its output chunks concatenate to the plaintext, for
\* every accepted record size and every chunking on both sides.
C1_RoundTrip ==
    (encStatus = "closed" /\ Finished) =>
        /\ decStatus = "closed"
        /\ Concat(decOut) = args.data

\* The round trip has run on three plaintext bytes in four records.
C1_Witness ==
    /\ decStatus = "closed"
    /\ Len(args.data) = MaxPlain
    /\ Len(opened) = MaxPlain + 1

\* C4: decrypt completes successfully if and only if the last record it
\* opened carried the terminal delimiter and no input byte follows it; end
\* of input inside the header, in the payload with fewer than tag_length+1
\* bytes buffered ('Unexpected end of data'), or on a last short record whose
\* delimiter is not terminal ('Unexpected non-terminal padding delimiter')
\* fails the stream.
C4_TruncationDetected ==
    /\ Finished =>
          (decStatus = "closed" <=>
              /\ opened # <<>>
              /\ LastOpened.delimiter = PADDING_DELIMITER_TERMINAL
              /\ LastOpened.end = wireFed)
    /\ (flushed /\ dec.state \in {DECRYPT_STATE.salt, DECRYPT_STATE.recordSize,
                                  DECRYPT_STATE.keyIdLen, DECRYPT_STATE.keyId})
          => decStatus = "errored"
    /\ (/\ flushed
        /\ dec.state = DECRYPT_STATE.payload
        /\ dec.pos < dec.encoding.tag_length + 1)
          => /\ decStatus = "errored"
             /\ decErr.message = "Unexpected end of data"
    /\ (/\ flushed
        /\ dec.state = DECRYPT_STATE.payload
        /\ dec.pos >= dec.encoding.tag_length + 1
        /\ opened # <<>>
        /\ LastOpened.end = wireFed
        /\ LastOpened.delimiter # PADDING_DELIMITER_TERMINAL)
          => /\ decStatus = "errored"
             /\ decErr.message = "Unexpected non-terminal padding delimiter"

\* A well-formed stream cut right after a full non-terminal record.
C4_Witness ==
    /\ flushed
    /\ sent.pts \in WellFormedRecords
    /\ sent.mutation = NoMutation
    /\ wireFed < Len(wire)
    /\ Len(opened) = 1
    /\ LastOpened.end = wireFed
    /\ decErr.message = "Unexpected end of data"

RECURSIVE WireLength(_, _)
\* Bytes the records of a sender take on the wire.
WireLength(snd, pts) ==
    IF pts = <<>> THEN 0
    ELSE Len(Head(pts)) + snd.encoding.tag_length + WireLength(snd, Tail(pts))

\* Where on the wire a well-formed stream ends, more bytes following or not.
WellFormedEnds(snd) ==
    {SALT_LENGTH + 4 + 1 + Len(snd.keyId) + WireLength(snd, SubSeq(snd.pts, 1, k)) :
        k \in {j \in 1..Len(snd.pts) : SubSeq(snd.pts, 1, j) \in WellFormedRecords}}

Untampered ==
    /\ sent.mutation.tamper = 0
    /\ sent.mutation.skip = 0
    /\ env = RightKey
    /\ sent.recordSize = SmallRecord

\* C5: once decrypt has been handed a well-formed stream and at least one
\* byte more, in any chunking, the stream errors: it never completes.
C5_SingleTerminalRecord ==
    (/\ Untampered
     /\ Finished
     /\ \E e \in WellFormedEnds(sent) : wireFed > e)
        => decStatus = "errored"

\* Bytes appended after a full-size terminal record that was opened.
C5_Witness ==
    /\ Untampered
    /\ sent.pts \in WellFormedRecords
    /\ sent.mutation.append > 0
    /\ wireFed = Len(wire)
    /\ opened # <<>>
    /\ LastOpened.delimiter = PADDING_DELIMITER_TERMINAL
    /\ decStatus = "errored"

\* C6: a header that declares a record size R above maxRecordSize fails the
\* stream with RangeError 'Invalid record size: R' once the fourth byte of
\* the record size is consumed; no plaintext is emitted and lookupIKM is not
\* invoked.
C6_MaxRecordSize ==
    (/\ dec.maxRecordSize.given
     /\ sent.recordSize > dec.maxRecordSize.value
     /\ wireFed >= SALT_LENGTH + 4)
        => /\ decStatus = "errored"
           /\ decErr = Throw("RangeError", "Invalid record size: ", sent.recordSize)
           /\ decOut = <<>>
           /\ lookups = <<>>

\* What encrypt is to accept.
ValidArgs ==
    /\ args.encoding.tag_length + 1 < args.recordSize
    /\ args.recordSize <= MAX_RECORD_SIZE
    /\ Len(args.keyId) <= MAX_KEY_ID_LENGTH
    /\ (~args.salt.given \/ Len(args.salt.bytes) = SALT_LENGTH)

\* C7: encrypt accepts its arguments if and only if tag_length+1 <
\* recordSize <= MAX_RECORD_SIZE, the key id has at most MAX_KEY_ID_LENGTH
\* bytes and the salt is absent or SALT_LENGTH bytes long; any other call
\* throws a RangeError with no stream made, no output, no plaintext read.
C7_EncryptValidation ==
    encStatus \notin {"unused", "idle"} =>
        /\ encStatus = "rejected" <=> ~ValidArgs
        /\ encStatus = "rejected" =>
              /\ encErr.name = "RangeError"
              /\ enc = NoEncryptor
              /\ encOut = <<>>
              /\ plainFed = 0

\* The largest rejected and the smallest accepted record size.
C7_Witness ==
    \/ /\ encStatus = "rejected"
       /\ args.recordSize = args.encoding.tag_length + 1
       /\ Len(args.keyId) = 0
       /\ ~args.salt.given
    \/ /\ encStatus = "closed"
       /\ args.recordSize = args.encoding.tag_length + 2
       /\ Len(args.keyId) = MAX_KEY_ID_LENGTH
       /\ Len(args.data) = MaxPlain

\* The plaintext a sealed record holds.
PlaintextOf(ct) == sealed[ct[1][1]].pt

\* C8: after the header the encrypt stream has enqueued one record of
\* recordSize bytes per full segment of plaintext consumed, each holding
\* that segment and the delimiter 0x01; the terminal record, holding the
\* remaining bytes and 0x02, comes last, once, and only at end of input.
C8_RecordStructure ==
    encStatus \in {"open", "closed"} =>
        LET segment == args.recordSize - args.encoding.tag_length - 1
            full == plainFed \div segment
        IN  /\ Len(encOut) = 1 + full + (IF encStatus = "closed" THEN 1 ELSE 0)
            /\ \A k \in 1..full :
                  /\ Len(encOut[k + 1]) = args.recordSize
                  /\ PlaintextOf(encOut[k + 1]) =
                        SubSeq(args.data, (k - 1) * segment + 1, k * segment)
                            \o <<PADDING_DELIMITER_NONTERMINAL>>
            /\ encStatus = "closed" =>
                  /\ plainFed = Len(args.data)
                  /\ Len(encOut[full + 2]) =
                        (plainFed % segment) + 1 + args.encoding.tag_length
                  /\ PlaintextOf(encOut[full + 2]) =
                        SubSeq(args.data, full * segment + 1, plainFed)
                            \o <<PADDING_DELIMITER_TERMINAL>>

\* Two-byte segments: one full record, then a terminal record with a byte.
C8_Witness ==
    /\ encStatus = "closed"
    /\ args.recordSize = args.encoding.tag_length + 3
    /\ Len(args.data) = 3
    /\ Len(encOut) = 3

\* C9: the first chunk of every encrypt stream is salt, recordSize in four
\* bytes big-endian, the key id length and the key id; it is there before
\* any plaintext is consumed, and every later chunk is a sealed record.
C9_HeaderFirst ==
    encStatus \in {"open", "closed", "errored"} =>
        /\ Len(encOut) >= 1
        /\ Len(encOut[1]) = SALT_LENGTH + 4 + 1 + Len(args.keyId)
        /\ SubSeq(encOut[1], 1, SALT_LENGTH) = enc.CEK.salt
        /\ args.salt.given => SubSeq(encOut[1], 1, SALT_LENGTH) = args.salt.bytes
        /\ GetUint32(SubSeq(encOut[1], SALT_LENGTH + 1, SALT_LENGTH + 4))
              = args.recordSize
        /\ encOut[1][SALT_LENGTH + 5] = Len(args.keyId)
        /\ SubSeq(encOut[1], SALT_LENGTH + 6, Len(encOut[1])) = args.keyId
        /\ plainFed = 0 => Len(encOut) = 1 \/ encStatus = "closed"
        /\ \A k \in 2..Len(encOut) : encOut[k][1][1] \in 1..Len(sealed)

\* Only the header is out, of a call with a key id, no plaintext read yet.
C9_Witness ==
    /\ encStatus = "open"
    /\ plainFed = 0
    /\ Len(encOut) = 1
    /\ Len(args.keyId) = 2
    /\ Len(args.data) > 0

\* C10: lookupIKM is invoked at most once per decrypt stream, whatever the
\* input and its chunking.
C10_LookupOnce == Len(lookups) <= 1

\* A zero-length key id was looked up, records were opened, the stream failed.
C10_Witness ==
    /\ lookups = << <<>> >>
    /\ Len(opened) >= 1
    /\ decStatus = "errored"

\* C11: lookupIKM is given exactly the key id of the header: as many bytes
\* as the length byte says (none permitted), equal to the bytes that follow
\* the length byte, however the header is split into chunks.
C11_LookupArgument ==
    \A k \in 1..Len(lookups) :
        /\ Len(lookups[k]) = wire[SALT_LENGTH + 4 + 1]
        /\ lookups[k] = SubSeq(wire, SALT_LENGTH + 4 + 2,
                               SALT_LENGTH + 4 + 1 + wire[SALT_LENGTH + 4 + 1])
        /\ lookups[k] = sent.keyId

\* The longest key id has been looked up.
C11_Witness ==
    /\ lookups = <<sent.keyId>>
    /\ Len(sent.keyId) = MAX_KEY_ID_LENGTH
    /\ decStatus = "closed"

\* The record size the bytes of the header spell, big-endian and unsigned.
DeclaredRecordSize ==
    GetUint32(SubSeq(wire, SALT_LENGTH + 1, SALT_LENGTH + 4))

\* C12: once its four bytes are in, however split, the record size is the
\* big-endian unsigned value R of those bytes; the header is accepted if and
\* only if tag_length+1 < R <= min(MAX_RECORD_SIZE, maxRecordSize), with
\* MAX_RECORD_SIZE alone the limit when maxRecordSize is not given, and a
\* rejected R is reported as RangeError 'Invalid record size: R'.
C12_RecordSizeParsing ==
    wireFed >= SALT_LENGTH + 4 =>
        LET R == DeclaredRecordSize
            limit == IF dec.maxRecordSize.given
                     THEN Min(MAX_RECORD_SIZE, dec.maxRecordSize.value)
                     ELSE MAX_RECORD_SIZE
        IN  /\ R = sent.recordSize
            /\ IF dec.encoding.tag_length + 1 < R /\ R <= limit
               THEN /\ dec.recordSize = R
                    /\ decErr.message # "Invalid record size: "
               ELSE /\ decStatus = "errored"
                    /\ decErr = Throw("RangeError", "Invalid record size: ", R)

\* The decrypt stream was given one of the two examples of RFC 8188.
VectorGiven == \E c \in VectorCases : sent = c.snd

OneChunk(n) ==
    LET t == DecTransform(NewDecryptor(dec.encoding, dec.maxRecordSize), env,
                          sealed, 0, SubSeq(wire, 1, n))
        f == DecFlush(t.d, env, sealed, n)
    IN  IF Failed(t) \/ Failed(f) THEN [ok |-> FALSE, out |-> <<>>]
        ELSE [ok |-> TRUE, out |-> Concat(t.out \o f.out)]

\* C14: however the bytes of a stream are cut into chunks (empty chunks
\* included), decrypt does as it does on the same bytes in one chunk: it
\* completes with the same plaintext, or it fails.  A stream that failed
\* inside a chunk fails in one chunk whatever bytes were still to come.
C14_ChunkIndependence ==
    /\ decStatus = "closed" =>
          OneChunk(wireFed) = [ok |-> TRUE, out |-> Concat(decOut)]
    /\ (decStatus = "errored" /\ flushed) => ~OneChunk(wireFed).ok
    /\ (decStatus = "errored" /\ ~flushed) =>
          \A n \in wireFed..Len(wire) : ~OneChunk(n).ok

\* A terminal record that ended its chunk, and a later chunk that failed the
\* stream: in one chunk the same bytes fail inside the record's chunk.
C14_Witness ==
    /\ decStatus = "errored"
    /\ decErr.message = "Invalid state"
    /\ opened # <<>>
    /\ LastOpened.delimiter = PADDING_DELIMITER_TERMINAL
    /\ LastOpened.emitted
    /\ ~OneChunk(wireFed).ok

\* The generator an accepted encrypt call starts from, and its k-th nonce
\* (k = 0, 1, ...).
FirstGenerator == init(args.encoding, args.IKM, enc.CEK.salt).deriveNonce
NthNonce(k) == GenNext(Advance(FirstGenerator, k)).value

\* The nonce the k-th record of the encrypted stream was sealed with.
SealedWith(k) == sealed[encOut[k + 2][1][1]].iv

\* C15: the k-th record of a stream (k = 0, 1, ...) is sealed by encrypt and
\* opened by decrypt with the k-th nonce of the stream's generator, records
\* in the order of the input; each record takes exactly one nonce and no two
\* records of one stream share a nonce.
C15_RecordNoncePairing ==
    /\ encStatus \in {"open", "closed"} =>
          /\ \A k \in 0..(Len(encOut) - 2) : SealedWith(k) = NthNonce(k)
          /\ enc.deriveNonce = Advance(FirstGenerator, Len(encOut) - 1)
          /\ \A j, k \in 0..(Len(encOut) - 2) :
                j # k => SealedWith(j) # SealedWith(k)
    /\ decStatus \in {"open", "closed"} =>
          /\ \A k \in 1..Len(opened) :
                /\ opened[k].iv = NthNonce(k - 1)
                /\ opened[k].end = Len(Concat(SubSeq(encOut, 1, k + 1)))
                /\ opened[k].emitted
          /\ Len(decOut) = Len(opened)
          /\ IF opened = <<>>
             THEN dec.deriveNonce \in {NoGenerator, FirstGenerator}
             ELSE dec.deriveNonce = Advance(FirstGenerator, Len(opened))

\* Byte l (1 the first) of k written in n bytes, big-endian: the last four
\* bytes hold the least significant counter word, the four before them the
\* next one, and so on; a counter word counts up to seq_max.
RenderedByte(k, n, l) ==
    LET word == (k \div ((seq_max + 1) ^ ((n - l) \div 4))) % (seq_max + 1)
    IN  (word \div (ByteMod ^ ((n - l) % 4))) % ByteMod

\* nonce_base XOR k, in the bytes of this generator's nonces.
ExpectedNonce(g, k) ==
    [l \in 1..g.nonce_length |->
        BitXor(g.bitsBuffer[l], RenderedByte(k, g.nonce_length, l))]

\* C16: while counter values remain, the k-th nonce next() returns
\* (k = 0, 1, ...) is nonce_base XOR k, k written big-endian over the whole
\* nonce; the first nonce is nonce_base.
C16_NonceValue ==
    (lastCall = "value" /\ calls <= Capacity(gen)) =>
        /\ NonceOf(gen) = ExpectedNonce(gen, calls - 1)
        /\ returned = {ExpectedNonce(gen, k) : k \in 0..(calls - 1)}
        /\ calls = 1 => returned = {gen.bitsBuffer}

\* A three-word nonce whose two lower counter words have both wrapped.
C16_Witness ==
    /\ lastCall = "value"
    /\ gen.nonce_length = 12
    /\ calls = (seq_max + 1) ^ 2 + 1
    /\ NonceOf(gen) # gen.bitsBuffer

\* The plaintext AES-GCM returned for the k-th opened record.
OpenedPlaintext(k) ==
    sealed[CHOOSE j \in 1..Len(sealed) :
               sealed[j].iv = opened[k].iv /\ sealed[j].cek = dec.CEK].pt

\* Where the last non-zero byte of a plaintext is; its first byte if none.
LastNonZero(pt) ==
    IF \E j \in 1..Len(pt) : pt[j] # 0
    THEN CHOOSE j \in 1..Len(pt) : pt[j] # 0 /\ \A l \in (j + 1)..Len(pt) : pt[l] = 0
    ELSE 1

\* The k-th opened record filled the record buffer (transform opened it).
FullRecord(k) ==
    Len(OpenedPlaintext(k)) + dec.encoding.tag_length = dec.recordSize

\* The k-th opened record went out: the bytes before its delimiter, as the
\* k-th chunk of the decrypted stream.
EmittedBeforeDelimiter(k) ==
    /\ opened[k].emitted
    /\ Len(decOut) >= k
    /\ decOut[k] = SubSeq(OpenedPlaintext(k), 1, LastNonZero(OpenedPlaintext(k)) - 1)

\* The k-th opened record failed the stream with this message, nothing of it
\* having gone out.
FailedOn(k, message) ==
    /\ ~opened[k].emitted
    /\ k = Len(opened)
    /\ Len(decOut) = k - 1
    /\ decStatus = "errored"
    /\ decErr.message = message

\* C17: of every full record that opens, the last non-zero byte is the
\* delimiter.  If it is 0x01 the bytes before it are emitted; if it is 0x02
\* they are emitted too, unless bytes of the same chunk follow the record,
\* which fails the stream with 'Unexpected terminal padding delimiter'; any
\* other value, all zeros included, fails it with 'Invalid padding
\* delimiter'.  A failing record emits nothing.
C17_DelimiterDecode ==
    \A k \in 1..Len(opened) :
        FullRecord(k) =>
            LET delimiter == OpenedPlaintext(k)[LastNonZero(OpenedPlaintext(k))]
            IN  /\ opened[k].delimiter = delimiter
                /\ delimiter = PADDING_DELIMITER_NONTERMINAL =>
                      EmittedBeforeDelimiter(k)
                /\ delimiter = PADDING_DELIMITER_TERMINAL =>
                      \/ EmittedBeforeDelimiter(k)
                      \/ /\ FailedOn(k, "Unexpected terminal padding delimiter")
                         /\ wireFed > opened[k].end
                /\ delimiter \notin {PADDING_DELIMITER_NONTERMINAL,
                                     PADDING_DELIMITER_TERMINAL} =>
                      FailedOn(k, "Invalid padding delimiter")

\* C17 as stated: the bytes before a delimiter 0x01 or 0x02 of a full record
\* that opened are always emitted.
C17_AlwaysEmitted ==
    \A k \in 1..Len(opened) :
        (/\ FullRecord(k)
         /\ opened[k].delimiter \in {PADDING_DELIMITER_NONTERMINAL,
                                     PADDING_DELIMITER_TERMINAL})
            => EmittedBeforeDelimiter(k)

\* The padded first record of the example of RFC 8188, section 3.2, went
\* out without its delimiter and its padding.
C17_Witness ==
    /\ VectorGiven
    /\ Len(opened) >= 1
    /\ FullRecord(1)
    /\ Len(OpenedPlaintext(1)) = 9
    /\ decOut[1] = SubSeq(Walrus, 1, 7)

\* One transform(chunk) of the decrypt stream and the terminal records it
\* opened: a record with bytes of the chunk after it fails the stream and is
\* not emitted; a record that ends the chunk is emitted and leaves the
\* stream open in state done.  A non-empty chunk in state done fails the
\* stream, nothing emitted.
TrailingBytesStep ==
    ~flushed' =>
        /\ \A k \in (Len(opened) + 1)..Len(opened') :
              opened'[k].delimiter = PADDING_DELIMITER_TERMINAL =>
                  IF opened'[k].end < wireFed'
                  THEN /\ ~opened'[k].emitted
                       /\ Len(decOut') = k - 1
                       /\ decStatus' = "errored"
                       /\ decErr'.message = "Unexpected terminal padding delimiter"
                  ELSE /\ opened'[k].emitted
                       /\ Len(decOut') = k
                       /\ dec'.state = DECRYPT_STATE.done
                       /\ decStatus' = "open"
        /\ (dec.state = DECRYPT_STATE.done /\ wireFed' > wireFed) =>
              /\ decStatus' = "errored"
              /\ decErr'.message = "Invalid state"
              /\ decOut' = decOut

\* C18: a full-size record that opens with the terminal delimiter while
\* bytes remain in its chunk fails the stream with 'Unexpected terminal
\* padding delimiter', its plaintext not emitted; one that ends its chunk is
\* emitted and the state becomes done, and any later non-empty chunk fails
\* the stream with 'Invalid state'.
C18_TrailingBytes == [][TrailingBytesStep]_vars

\* A terminal record with a byte after it in its chunk has failed the stream.
C18_Witness ==
    /\ decStatus = "errored"
    /\ decErr.message = "Unexpected terminal padding delimiter"
    /\ opened # <<>>
    /\ ~LastOpened.emitted
    /\ LastOpened.end < wireFed

\* Where the k-th record of the wire begins, the records before it opened.
RecordBegin(k) ==
    IF k = 1 THEN SALT_LENGTH + 4 + 1 + Len(sent.keyId) ELSE opened[k - 1].end

\* The k-th opened record is, byte for byte, what some sender sealed under
\* the receiver's key and the receiver's k-th nonce.
Authentic(k) ==
    LET i == init(sent.encoding, env.ikm, sent.salt)
    IN  /\ env.ok
        /\ opened[k].iv = GenNext(Advance(i.deriveNonce, k - 1)).value
        /\ \E j \in 1..Len(sealed) :
              /\ sealed[j].cek = i.CEK
              /\ sealed[j].iv = opened[k].iv
              /\ SubSeq(wire, RecordBegin(k) + 1, opened[k].end)
                    = [n \in 1..(Len(sealed[j].pt) + sent.encoding.tag_length)
                          |-> <<j, n>>]

\* C19: an AEAD authentication failure on a record, full in transform or
\* partial at flush, fails the stream at once: the records that went out are
\* the authentic ones before it, nothing of the failing record or of a later
\* one goes out, and a stream that has not failed has opened every complete
\* record it was fed.
C19_AuthenticationFailure ==
    /\ \A k \in 1..Len(opened) : Authentic(k)
    /\ decErr.name = "OperationError" =>
          /\ decStatus = "errored"
          /\ Len(decOut) = Len(opened)
          /\ \A k \in 1..Len(opened) : opened[k].emitted
    /\ (decStatus = "open" /\ dec.state = DECRYPT_STATE.payload) =>
          wireFed - RecordBegin(Len(opened) + 1) < dec.recordSize
    /\ decStatus = "closed" =>
          /\ opened # <<>>
          /\ wireFed = LastOpened.end

\* The final, partial record failed authentication at flush, one record
\* having gone out before it.
C19_Witness ==
    /\ decStatus = "errored"
    /\ decErr.name = "OperationError"
    /\ flushed
    /\ Len(decOut) = 1
    /\ wireFed > LastOpened.end

Prefix(s, t) == Len(s) =< Len(t) /\ SubSeq(t, 1, Len(s)) = s

\* One step of either stream: what went out stays out, and a stream that
\* has raised a fatal condition takes no input, puts nothing out and looks
\* no secret up.
FatalStep ==
    /\ Prefix(encOut, encOut')
    /\ Prefix(decOut, decOut')
    /\ Prefix(lookups, lookups')
    /\ encStatus \in {"rejected", "errored"} =>
          /\ encErr # NoError
          /\ UNCHANGED <<encStatus, encErr, enc, encOut, plainFed, sealed>>
    /\ decStatus = "errored" =>
          /\ decErr # NoError
          /\ UNCHANGED <<decStatus, decErr, dec, decOut, wireFed, lookups,
                         derived, opened>>

HeaderStates ==
    {DECRYPT_STATE.salt, DECRYPT_STATE.recordSize, DECRYPT_STATE.keyIdLen,
     DECRYPT_STATE.keyId}

\* How many bytes the header on the wire takes.
HeaderLength == SALT_LENGTH + 4 + 1 + wire[SALT_LENGTH + 4 + 1]

\* C21: lookupIKM is invoked only after the salt, a valid record size, the
\* key id length and all bytes of the key id have been consumed; keys are
\* derived once, after lookupIKM has returned and before any record is
\* opened; before that nothing is emitted and no nonce is taken; a stream
\* that ends or fails inside the header never invokes lookupIKM.
C21_HeaderOrdering ==
    /\ lookups # <<>> =>
          /\ wireFed >= HeaderLength
          /\ dec.salt = SubSeq(wire, 1, SALT_LENGTH)
          /\ dec.recordSize = DeclaredRecordSize
          /\ ~RecordSizeInvalid(dec.encoding, DeclaredRecordSize, dec.maxRecordSize)
          /\ dec.state \in {DECRYPT_STATE.keyId, DECRYPT_STATE.payload,
                            DECRYPT_STATE.done}
    /\ derived <= Len(lookups)
    /\ derived <= 1
    /\ derived = 1 <=> dec.state \in {DECRYPT_STATE.payload, DECRYPT_STATE.done}
    /\ derived = 1 => env.ok
    /\ derived = 0 =>
          /\ opened = <<>>
          /\ decOut = <<>>
          /\ dec.deriveNonce = NoGenerator
          /\ dec.CEK = NoKey
    /\ (derived = 1 /\ decStatus = "open"
           /\ wireFed - HeaderLength < dec.recordSize) =>
          dec.deriveNonce = init(dec.encoding, env.ikm, dec.salt).deriveNonce
    /\ (dec.state \in HeaderStates /\ lookups # <<>>) =>
          /\ ~env.ok
          /\ decStatus = "errored"
          /\ decErr.message = "lookupIKM"
    /\ (dec.state \in HeaderStates /\ decStatus \in {"closed", "errored"}
           /\ decErr.message # "lookupIKM") =>
          lookups = <<>>

\* The keys of a stream with a key id are derived; no record has come yet.
C21_Witness ==
    /\ derived = 1
    /\ lookups = <<sent.keyId>>
    /\ Len(sent.keyId) > 0
    /\ wireFed = HeaderLength
    /\ opened = <<>>
    /\ decStatus = "open"

\* The place of a state in SALT -> RECORD_SIZE -> KEY_ID_LENGTH -> KEY_ID ->
\* PAYLOAD -> DONE.
StateRank(state) ==
    CASE state = DECRYPT_STATE.salt -> 0
      [] state = DECRYPT_STATE.recordSize -> 1
      [] state = DECRYPT_STATE.keyIdLen -> 2
      [] state = DECRYPT_STATE.keyId -> 3
      [] state = DECRYPT_STATE.payload -> 4
      [] state = DECRYPT_STATE.done -> 5

\* One call of transform or flush: the state does not go back; a chunk of
\* one byte, which is one turn of the loop (two when the key id is empty),
\* moves it by one state at most; flush leaves it alone; a non-terminal
\* record that went out last in a call that returned leaves it in payload,
\* the buffer taking the bytes after the record from position 0; done comes
\* only from a full record that went out with the terminal delimiter at the
\* end of its chunk.
StateStep ==
    /\ StateRank(dec'.state) >= StateRank(dec.state)
    /\ wireFed' = wireFed + 1 =>
          StateRank(dec'.state) <= StateRank(dec.state) + 1
    /\ (flushed' /\ ~flushed) => dec'.state = dec.state
    /\ (Len(opened') > Len(opened) /\ opened'[Len(opened')].emitted
           /\ opened'[Len(opened')].delimiter = PADDING_DELIMITER_NONTERMINAL
           /\ ~flushed' /\ decStatus' = "open") =>
          /\ dec'.state = DECRYPT_STATE.payload
          /\ dec'.pos = wireFed' - opened'[Len(opened')].end
          /\ dec'.pos < dec'.recordSize
    /\ (dec'.state = DECRYPT_STATE.done /\ dec.state # DECRYPT_STATE.done) =>
          /\ ~flushed'
          /\ Len(opened') > Len(opened)
          /\ LET last == opened'[Len(opened')]
                 before == IF Len(opened') = 1 THEN HeaderLength
                           ELSE opened'[Len(opened') - 1].end
             IN  /\ last.delimiter = PADDING_DELIMITER_TERMINAL
                 /\ last.emitted
                 /\ last.end - before = dec'.recordSize
                 /\ last.end = wireFed'

\* C22: the state of the decryptor only moves forward along SALT ->
\* RECORD_SIZE -> KEY_ID_LENGTH -> KEY_ID -> PAYLOAD -> DONE, PAYLOAD
\* repeating after a non-terminal record with the buffer position back at
\* 0; it never returns to an earlier state, skips none, and enters DONE only
\* by opening a full-size record whose delimiter is 0x02.
C22_StateProgression == [][StateStep]_vars

\* Two records were opened, the second one terminal: the decryptor is done.
C22_Witness ==
    /\ dec.state = DECRYPT_STATE.done
    /\ Len(opened) = 2
    /\ opened[1].delimiter = PADDING_DELIMITER_NONTERMINAL
    /\ decStatus = "open"

\* The decryptor's buffers and its position in the one it is filling.
DecryptorBounded ==
    /\ decErr # OutOfBounds
    /\ Len(dec.salt) = SALT_LENGTH
    /\ Len(dec.keyId) = 1 + MAX_KEY_ID_LENGTH
    /\ dec.pos >= 0
    /\ dec.state = DECRYPT_STATE.salt =>
          dec.pos < SALT_LENGTH /\ dec.buffer = <<>>
    /\ dec.state = DECRYPT_STATE.recordSize =>
          /\ dec.pos <= 4
          /\ dec.pos = 4 => decStatus = "errored"
          /\ dec.buffer = <<>>
    /\ dec.state = DECRYPT_STATE.keyIdLen =>
          dec.pos = 0 /\ dec.buffer = <<>>
    /\ dec.state = DECRYPT_STATE.keyId =>
          /\ dec.pos <= dec.keyId[1]
          /\ dec.keyId[1] <= MAX_KEY_ID_LENGTH
          /\ dec.buffer = <<>>
    /\ dec.state \in {DECRYPT_STATE.payload, DECRYPT_STATE.done} =>
          /\ derived = 1
          /\ Len(dec.buffer) = dec.recordSize
          /\ dec.pos <= dec.recordSize
          /\ decStatus \in {"open", "closed"} => dec.pos < dec.recordSize
          /\ dec.recordSize <= MAX_RECORD_SIZE
          /\ dec.maxRecordSize.given => dec.recordSize <= dec.maxRecordSize.value

\* The encryptor's segment buffer and its position in it.
EncryptorBounded ==
    /\ encErr # OutOfBounds
    /\ encStatus \in {"open", "closed", "errored"} =>
          /\ Len(enc.buffer) = enc.segmentSize
          /\ enc.pos >= 0
          /\ enc.pos <= enc.segmentSize
          /\ encStatus \in {"open", "closed"} => enc.pos < enc.segmentSize

\* C23: the decryptor buffers 0 <= pos <= record_size bytes of a record,
\* fewer than record_size between chunks, in a buffer allocated once with
\* record_size bytes, at most max_record_size when that is given; the
\* encryptor buffers 0 <= pos < segment_size bytes between chunks; no write
\* goes past the end of the salt, the key id, the record or the segment
\* buffer.
C23_BoundedBuffering == DecryptorBounded /\ EncryptorBounded

\* The encryptor holds one byte of a two-byte segment between two chunks.
C23_Witness ==
    /\ encStatus = "open"
    /\ enc.segmentSize = 2
    /\ enc.pos = 1
    /\ Len(encOut) = 2

\* The generator init() gives a stream of this key and salt.
FreshGenerator == init(aes128gcm, TheIKM, Salt1).deriveNonce

\* C24: every encrypt call and every decrypt stream has a nonce generator of
\* its own, whose counter starts at 0; no two streams share one, so however
\* the streams are interleaved, the counter of a stream is the number of
\* nonces that stream took, whatever the others took.
C24_SingleUse ==
    \A s \in 1..Len(streams) :
        LET g == heap[streams[s].deriveNonce]
            taken == Len(streams[s].nonces)
        IN  /\ \A t \in 1..Len(streams) :
                  t # s => streams[t].deriveNonce # streams[s].deriveNonce
            /\ g = Advance(FreshGenerator, taken)
            /\ taken = 0 => ~g.started
            /\ taken > 0 => CounterValue(g) = taken - 1
            /\ \A k \in 1..taken :
                  streams[s].nonces[k]
                      = GenNext(Advance(FreshGenerator, k - 1)).value

\* An encrypt and a decrypt stream of one key are under way: one took two
\* nonces, the other one.
C24_Witness ==
    /\ Len(streams) >= 2
    /\ streams[1].kind # streams[2].kind
    /\ Len(streams[1].nonces) = 2
    /\ Len(streams[2].nonces) = 1

\* A turn of the decryptor's loop makes progress: it throws, or consumes a
\* byte of the chunk, or is the turn of an empty key id, which consumes
\* nothing and moves the state to payload.
DecProgress(r, octets) ==
    LET r1 == DecIteration(r, octets)
    IN  \/ Failed(r1)
        \/ r1.ipos > r.ipos
        \/ /\ r1.ipos = r.ipos
           /\ r.d.state = DECRYPT_STATE.keyId
           /\ r.d.keyId[1] = 0
           /\ r1.d.state = DECRYPT_STATE.payload

\* A turn of the encryptor's loop throws or consumes a byte of the chunk.
EncProgress(r, octets) ==
    LET r1 == EncIteration(r, octets)
    IN  Failed(r1) \/ r1.ipos > r.ipos

RECURSIVE DecTerminates(_, _, _)
\* The decryptor's loop ends within `turns` turns, each making progress.
DecTerminates(r, octets, turns) ==
    IF Failed(r) \/ r.ipos >= Len(octets) THEN TRUE
    ELSE /\ turns > 0
         /\ DecProgress(r, octets)
         /\ DecTerminates(DecIteration(r, octets), octets, turns - 1)

RECURSIVE EncTerminates(_, _, _)
\* The encryptor's loop ends within `turns` turns, each making progress.
EncTerminates(r, octets, turns) ==
    IF Failed(r) \/ r.ipos >= Len(octets) THEN TRUE
    ELSE /\ turns > 0
         /\ EncProgress(r, octets)
         /\ EncTerminates(EncIteration(r, octets), octets, turns - 1)

\* C25: whatever the state and the chunk, the loop of transform ends, in
\* the encryptor after at most one turn per byte of the chunk and in the
\* decryptor after at most one turn more: every turn consumes a byte of
\* the chunk, throws, or is the turn of the empty key id, the only one that
\* consumes nothing.
C25_ChunkTerminates ==
    /\ encStatus = "open" =>
          \A n \in 0..(Len(args.data) - plainFed) :
              EncTerminates(EncRun(enc, sealed),
                            SubSeq(args.data, plainFed + 1, plainFed + n), n)
    /\ decStatus = "open" =>
          \A n \in 0..(Len(wire) - wireFed) :
              DecTerminates(DecRun(dec, env, sealed, wireFed),
                            SubSeq(wire, wireFed + 1, wireFed + n), n + 1)

\* A chunk of one byte took two turns: the turn of the empty key id, then
\* the first byte of a record.
C25_Witness ==
    /\ lookups = << <<>> >>
    /\ derived = 1
    /\ wireFed = HeaderLength + 1
    /\ dec.pos = 1
    /\ decStatus = "open"

AllZero(octets) == \A i \in 1..Len(octets) : octets[i] = 0

\* C26: after the encryptor has sealed a record, non-terminal in transform
\* or terminal in flush, its segment buffer and the temporary record hold
\* zero bytes only; after the decryptor has emitted the plaintext of a
\* record, the buffer it was opened into holds zero bytes only.
C26_Zeroization ==
    /\ (encStatus \in {"open", "closed"} /\ Len(encOut) > 1
           /\ (enc.pos = 0 \/ encStatus = "closed")) =>
          /\ AllZero(enc.buffer)
          /\ AllZero(enc.record)
    /\ \A k \in 1..Len(opened) :
          opened[k].emitted => AllZero(opened[k].result)

=============================================================================
